---- MODULE Spec2Model ----
(***************************************************************************)
(* State machine of the finance tracker's application state (App.tsx) and  *)
(* of the Dashboard handlers that mutate it through updateData.            *)
(*                                                                         *)
(* Records are JavaScript objects: an optional field that was never        *)
(* written is absent from the record's DOMAIN, and object spread is Merge. *)
(* Ids are strings; crypto.randomUUID() is the next element of a counter.  *)
(* Amounts are integers; NaN is the one value that is not a number.        *)
(***************************************************************************)
EXTENDS Integers, Sequences, FiniteSets, TLC

VARIABLES data, prev, last, notice, now, uuid, goalContributionAccount, levelInfo

vars == <<data, prev, last, notice, now, uuid, goalContributionAccount, levelInfo>>

(* data: the AppData held by App (useState); prev: data as it was before   *)
(* the last mutation; last: the last mutation, with what the user entered; *)
(* notice: what the last event showed the user ('' for nothing); now: the  *)
(* clock, advanced by every mutation; uuid: how many identifiers           *)
(* crypto.randomUUID() has handed out; goalContributionAccount: the        *)
(* Dashboard state of that name; levelInfo: the memoised getLevel(xp).     *)

(* ------------------------------ bounds -------------------------------- *)

\* mutations in a run
MaxClock == 3

\* clock readings per calendar day
TicksPerDay == 2

\* controls of the transaction form, beyond the fields a submission
\* requires, that the user changes from what the form shows on opening
MaxFormChanges == 1

\* options of a list (categories) the user reaches for
PickWidth == 2

\* largest saved xp the level display is started from
MaxXp == 2100

\* the latest clock reading at which a goal card is rendered
MaxPlanToday == 3

(* --------------------------- JavaScript values ------------------------ *)

NaN == -99

IsNaN(x) == x = NaN

\* x <= y of JavaScript numbers: false when either side is NaN
Leq(x, y) == ~IsNaN(x) /\ ~IsNaN(y) /\ x <= y

\* { ...a, ...b }
Merge(a, b) == [k \in DOMAIN a \cup DOMAIN b |-> IF k \in DOMAIN b THEN b[k] ELSE a[k]]

\* r.k used as a condition: an absent field and '' are both falsy
Truthy(r, k) == k \in DOMAIN r /\ r[k] # ""

\* parseFloat of the value of a number input ('' when it holds no number)
ParseFloat(s) ==
  CASE s = "-1" -> -1
    [] s = "0" -> 0
    [] s = "1" -> 1
    [] s = "2" -> 2
    [] OTHER -> NaN

\* amount.toString()
NumberToString(n) ==
  CASE n = -1 -> "-1"
    [] n = 0 -> "0"
    [] n = 1 -> "1"
    [] n = 2 -> "2"
    [] OTHER -> "NaN"

\* crypto.randomUUID(): the n-th identifier generated in this run
RandomUUID(n) == "u" \o ToString(n)

\* now.toISOString().split('T')[0]
DateOf(t) == t \div TicksPerDay

\* now.toLocaleTimeString('pt-BR', { hour, minute })
TimeOf(t) == t % TicksPerDay

\* now.toISOString()
ISOString(t) == t

\* array.find(test) is Find over the elements that pass the test; undefined is
\* the record NotFound
NotFound == [undefined |-> TRUE]

Find(s, matching) ==
  IF \E i \in DOMAIN s : s[i] \in matching
  THEN s[CHOOSE i \in DOMAIN s : s[i] \in matching /\ \A j \in 1..(i - 1) : s[j] \notin matching]
  ELSE NotFound

Range(s) == {s[i] : i \in DOMAIN s}

\* the first n elements of an array
Take(s, n) == SubSeq(s, 1, IF Len(s) < n THEN Len(s) ELSE n)

(* ------------------------------ App.tsx ------------------------------- *)

InitialData ==
  [transactions |-> <<>>,
   accounts |-> <<[id |-> "1", name |-> "Carteira", color |-> "#10b981"],
                  [id |-> "2", name |-> "Banco Principal", color |-> "#3b82f6"]>>,
   categories |-> <<"Alimentação", "Transporte", "Lazer", "Saúde", "Educação", "Salário", "Investimentos">>,
   goals |-> <<>>,
   xp |-> 0,
   lastSync |-> ISOString(0)]

\* setData(prev => ({ ...prev, ...newData, lastSync: new Date().toISOString() }))
updateData(old, newData, t) == Merge(Merge(old, newData), [lastSync |-> ISOString(t)])

(* ----------------------------- constants.tsx -------------------------- *)

LEVEL_THRESHOLD == 500

\* a getLevel whose last level is not pinned at 100
getLevel_Unpinned(xp) ==
  LET levelIndex == xp \div LEVEL_THRESHOLD
      progress == [num |-> (xp % LEVEL_THRESHOLD) * 100, den |-> LEVEL_THRESHOLD]
  IN  IF levelIndex = 0 THEN [name |-> "Poupador", progress |-> progress]
      ELSE IF levelIndex = 1 THEN [name |-> "Investidor", progress |-> progress]
      ELSE IF levelIndex = 2 THEN [name |-> "Estrategista", progress |-> progress]
      ELSE [name |-> "Mestre das Finanças", progress |-> progress]

\* progress is the fraction num/den, as the division leaves it
getLevel(xp) ==
  LET levelIndex == xp \div LEVEL_THRESHOLD
      progress == [num |-> (xp % LEVEL_THRESHOLD) * 100, den |-> LEVEL_THRESHOLD]
  IN  IF levelIndex = 0 THEN [name |-> "Poupador", progress |-> progress]
      ELSE IF levelIndex = 1 THEN [name |-> "Investidor", progress |-> progress]
      ELSE IF levelIndex = 2 THEN [name |-> "Estrategista", progress |-> progress]
      ELSE [name |-> "Mestre das Finanças", progress |-> [num |-> 100, den |-> 1]]

(* ------------------------ Dashboard: projections ---------------------- *)

AccountIds(d) == {a.id : a \in Range(d.accounts)}

\* one pass of the forEach over data.transactions
BalanceStep(balances, tx) ==
  IF tx.accountId \in DOMAIN balances
  THEN IF tx.type = "income"
       THEN [balances EXCEPT ![tx.accountId] = @ + tx.amount]
       ELSE IF tx.type = "expense"
       THEN [balances EXCEPT ![tx.accountId] = @ - tx.amount]
       ELSE IF tx.type = "transfer"
       THEN IF Truthy(tx, "destinationAccountId")
            THEN [balances EXCEPT ![tx.accountId] = @ - tx.amount]
            ELSE [balances EXCEPT ![tx.accountId] = @ + tx.amount]
       ELSE balances
  ELSE balances

RECURSIVE BalanceFold(_, _, _)
BalanceFold(balances, txs, i) ==
  IF i > Len(txs) THEN balances
  ELSE BalanceFold(BalanceStep(balances, txs[i]), txs, i + 1)

\* a deriver that opens a balance for every account id it meets
accountBalances_AllKeys(d) ==
  BalanceFold([id \in AccountIds(d) \cup {d.transactions[i].accountId : i \in DOMAIN d.transactions} |-> 0],
              d.transactions, 1)

accountBalances(d) == BalanceFold([id \in AccountIds(d) |-> 0], d.transactions, 1)

RECURSIVE SumAmounts(_, _, _)
\* filter(t => t.type === type).reduce((sum, t) => sum + t.amount, 0)
SumAmounts(txs, type, i) ==
  IF i > Len(txs) THEN 0
  ELSE (IF txs[i].type = type THEN txs[i].amount ELSE 0) + SumAmounts(txs, type, i + 1)

stats(d) ==
  LET totalIncome == SumAmounts(d.transactions, "income", 1)
      totalExpenses == SumAmounts(d.transactions, "expense", 1)
  IN  [totalIncome |-> totalIncome, totalExpenses |-> totalExpenses,
       balance |-> totalIncome - totalExpenses]

(* ---------------------- expensePieData, incomePieData ---------------- *)

\* cats[tx.category] = (cats[tx.category] || 0) + tx.amount, on the entries
\* of cats in the order their keys were first written
PieStep(cats, tx) ==
  IF \E k \in DOMAIN cats : cats[k].name = tx.category
  THEN [k \in DOMAIN cats |->
          IF cats[k].name = tx.category
          THEN [name |-> cats[k].name, value |-> cats[k].value + tx.amount]
          ELSE cats[k]]
  ELSE Append(cats, [name |-> tx.category, value |-> tx.amount])

RECURSIVE PieFold_NoListCheck(_, _, _, _)
\* a fold that does not look for the category in the category list
PieFold_NoListCheck(cats, d, type, i) ==
  IF i > Len(d.transactions) THEN cats
  ELSE LET tx == d.transactions[i]
       IN  PieFold_NoListCheck(IF tx.type = type THEN PieStep(cats, tx) ELSE cats,
                               d, type, i + 1)

RECURSIVE PieFold(_, _, _, _)
\* filter(t => t.type === type).forEach(...): the categories must hold the category
PieFold(cats, d, type, i) ==
  IF i > Len(d.transactions) THEN cats
  ELSE LET tx == d.transactions[i]
       IN  PieFold(IF tx.type = type /\ tx.category \in Range(d.categories)
                   THEN PieStep(cats, tx) ELSE cats,
                   d, type, i + 1)

expensePieData(d) == PieFold(<<>>, d, "expense", 1)

incomePieData(d) == PieFold(<<>>, d, "income", 1)

(* ------------------------- calculateGoalPlan -------------------------- *)

\* Math.max
Max(a, b) == IF a >= b THEN a ELSE b

\* Math.ceil(a / b) for b > 0
CeilDiv(a, b) == -((-a) \div b)

\* !goal.deadline: the field is missing or ''
HasDeadline(goal) == "deadline" \in DOMAIN goal

\* return null
NoPlan == [none |-> TRUE]

\* accountBalances[id] || 0
BalanceOrZero(d, id) == IF id \in AccountIds(d) THEN accountBalances(d)[id] ELSE 0

\* a plan that takes the days to the deadline as they come, without the floor of 1
calculateGoalPlan_NoFloor(d, goal, freq, today) ==
  LET currentBalance == BalanceOrZero(d, goal.linkedAccountId)
  IN  IF ~HasDeadline(goal) \/ currentBalance >= goal.target THEN NoPlan
      ELSE LET remaining == goal.target - currentBalance
               timeDiff == goal.deadline * TicksPerDay - today
               daysRemaining == CeilDiv(timeDiff, TicksPerDay)
           IN  IF freq = "daily"
               THEN [amount |-> [num |-> remaining, den |-> daysRemaining], label |-> "por dia"]
               ELSE IF freq = "monthly"
               THEN [amount |-> IF daysRemaining >= 30
                                THEN [num |-> remaining * 30, den |-> daysRemaining]
                                ELSE [num |-> remaining, den |-> 1],
                     label |-> "por mês"]
               ELSE [amount |-> IF daysRemaining >= 365
                                THEN [num |-> remaining * 365, den |-> daysRemaining]
                                ELSE [num |-> remaining, den |-> 1],
                     label |-> "por ano"]

\* today is the clock in ticks; the deadline is the midnight that starts its
\* day; the amount is the fraction num/den, as the divisions leave it:
\* remaining / max(daysRemaining / 30, 1) is remaining * 30 / daysRemaining
\* when daysRemaining >= 30 and remaining otherwise
calculateGoalPlan(d, goal, freq, today) ==
  LET currentBalance == BalanceOrZero(d, goal.linkedAccountId)
  IN  IF ~HasDeadline(goal) \/ currentBalance >= goal.target THEN NoPlan
      ELSE LET remaining == goal.target - currentBalance
               timeDiff == goal.deadline * TicksPerDay - today
               daysRemaining == Max(CeilDiv(timeDiff, TicksPerDay), 1)
           IN  IF freq = "daily"
               THEN [amount |-> [num |-> remaining, den |-> daysRemaining], label |-> "por dia"]
               ELSE IF freq = "monthly"
               THEN [amount |-> IF daysRemaining >= 30
                                THEN [num |-> remaining * 30, den |-> daysRemaining]
                                ELSE [num |-> remaining, den |-> 1],
                     label |-> "por mês"]
               ELSE [amount |-> IF daysRemaining >= 365
                                THEN [num |-> remaining * 365, den |-> daysRemaining]
                                ELSE [num |-> remaining, den |-> 1],
                     label |-> "por ano"]

(* --------------------------- handler results -------------------------- *)

\* a handler either calls updateData(newData) or returns without; notice is
\* what it shows the user (an alert's text, '' for nothing); uuids is the
\* number of crypto.randomUUID() calls it made
Updated(newData, shown, n) == [update |-> <<newData>>, notice |-> shown, uuids |-> n]

Returned(shown) == [update |-> <<>>, notice |-> shown, uuids |-> 0]

(* ---------------------- handleDeleteTransaction ----------------------- *)

\* a deletion that removes the targeted record only
handleDeleteTransaction_OnlyTarget(d, id, confirmed) ==
  IF confirmed
  THEN Updated([transactions |-> SelectSeq(d.transactions, LAMBDA t : t.id # id)], "", 0)
  ELSE Returned("")

\* a deletion that takes back what the creation awarded
handleDeleteTransaction_Refund(d, id, confirmed) ==
  IF confirmed
  THEN LET tx == Find(d.transactions, {t \in Range(d.transactions) : t.id = id})
           newTransactions == SelectSeq(d.transactions, LAMBDA t : t.id # id)
           withoutPair ==
             IF Truthy(tx, "linkedTransferId")
             THEN SelectSeq(newTransactions,
                            LAMBDA t : ~("linkedTransferId" \in DOMAIN t
                                         /\ t.linkedTransferId = tx.linkedTransferId))
             ELSE newTransactions
       IN  Updated([transactions |-> withoutPair, xp |-> d.xp - 25], "", 0)
  ELSE Returned("")

handleDeleteTransaction(d, id, confirmed) ==
  IF confirmed
  THEN LET tx == Find(d.transactions, {t \in Range(d.transactions) : t.id = id})
           newTransactions == SelectSeq(d.transactions, LAMBDA t : t.id # id)
           withoutPair ==
             IF Truthy(tx, "linkedTransferId")
             THEN SelectSeq(newTransactions,
                            LAMBDA t : ~("linkedTransferId" \in DOMAIN t
                                         /\ t.linkedTransferId = tx.linkedTransferId))
             ELSE newTransactions
       IN  Updated([transactions |-> withoutPair], "", 0)
  ELSE Returned("")

(* --------------------------- TransactionModal ------------------------- *)

Descriptions == {"", "Mercado"}

ModalAmounts == {"", "-1", "0", "1"}

FrequencyChoices == {"none", "monthly"}

NoTransaction == [none |-> TRUE]

\* the form as the effect on [initialData, isOpen] leaves it
OpenedForm(d, initialData) ==
  IF initialData # NoTransaction
  THEN [description |-> initialData.description,
        amount |-> NumberToString(initialData.amount),
        type |-> initialData.type,
        category |-> initialData.category,
        accountId |-> initialData.accountId,
        isRecurring |-> ("isRecurring" \in DOMAIN initialData /\ initialData.isRecurring),
        frequency |-> IF Truthy(initialData, "frequency") THEN initialData.frequency ELSE "none"]
  ELSE [description |-> "",
        amount |-> "",
        type |-> "expense",
        category |-> IF Len(d.categories) > 0 THEN d.categories[1] ELSE "",
        accountId |-> IF Len(d.accounts) > 0 THEN d.accounts[1].id ELSE "",
        isRecurring |-> FALSE,
        frequency |-> "none"]

\* the forms one use of one control leads to (the form itself included)
OneChange(d, f) ==
  {[f EXCEPT !.description = x] : x \in Descriptions}
  \cup {[f EXCEPT !.amount = a] : a \in ModalAmounts}
  \cup {[f EXCEPT !.type = t] : t \in {"income", "expense"}}
  \cup {[f EXCEPT !.category = c] : c \in Range(Take(d.categories, PickWidth))}
  \cup {[f EXCEPT !.accountId = a] : a \in AccountIds(d)}
  \cup {[f EXCEPT !.isRecurring = ~@]}
  \cup (IF f.isRecurring THEN {[f EXCEPT !.frequency = q] : q \in FrequencyChoices} ELSE {})

RECURSIVE Changes(_, _, _)
Changes(d, forms, n) ==
  IF n = 0 THEN forms
  ELSE Changes(d, forms \cup UNION {OneChange(d, f) : f \in forms}, n - 1)

\* what the user may submit: a new transaction needs its description and
\* amount typed; beyond that at most MaxFormChanges controls are used
FormFillings(d, initialData) ==
  LET opened == OpenedForm(d, initialData)
      typed == IF initialData = NoTransaction
               THEN {[opened EXCEPT !.description = x, !.amount = a] :
                       x \in Descriptions, a \in ModalAmounts}
               ELSE {opened}
  IN  Changes(d, typed, MaxFormChanges)

\* handleSubmit: the txData handed to onConfirm, or <<>> on the early return
handleSubmit(d, initialData, f) ==
  IF f.description = "" \/ f.amount = "" \/ f.accountId = ""
  THEN <<>>
  ELSE LET selectedAccount == Find(d.accounts, {a \in Range(d.accounts) : a.id = f.accountId})
           accountName ==
             IF selectedAccount # NotFound THEN selectedAccount.name
             ELSE IF initialData # NoTransaction /\ Truthy(initialData, "accountName")
                  THEN initialData.accountName
                  ELSE "Conta Removida"
       IN  <<[description |-> f.description,
              amount |-> ParseFloat(f.amount),
              type |-> f.type,
              category |-> f.category,
              accountId |-> f.accountId,
              accountName |-> accountName,
              isRecurring |-> f.isRecurring,
              frequency |-> IF f.isRecurring THEN f.frequency ELSE "none"]>>

(* ------------------------ handleSaveTransaction ----------------------- *)

XP_TRANSACTION == 25

\* an edit that replaces the record by the form's fields instead of
\* spreading them over it
handleSaveTransaction_Replace(d, editingTransaction, txData, t, n) ==
  IF editingTransaction # NoTransaction
  THEN Updated([transactions |->
                  [i \in DOMAIN d.transactions |->
                     IF d.transactions[i].id = editingTransaction.id
                     THEN Merge(txData,
                                [id |-> editingTransaction.id,
                                 date |-> d.transactions[i].date,
                                 time |-> d.transactions[i].time,
                                 isEdited |-> TRUE, updatedAt |-> ISOString(t)])
                     ELSE d.transactions[i]]],
               "", 0)
  ELSE LET newTx == Merge(txData, [id |-> RandomUUID(n + 1), date |-> DateOf(t), time |-> TimeOf(t)])
       IN  Updated([transactions |-> Append(d.transactions, newTx), xp |-> d.xp + XP_TRANSACTION],
                   "", 1)

handleSaveTransaction(d, editingTransaction, txData, t, n) ==
  IF editingTransaction # NoTransaction
  THEN Updated([transactions |->
                  [i \in DOMAIN d.transactions |->
                     IF d.transactions[i].id = editingTransaction.id
                     THEN Merge(Merge(d.transactions[i], txData),
                                [isEdited |-> TRUE, updatedAt |-> ISOString(t)])
                     ELSE d.transactions[i]]],
               "", 0)
  ELSE LET newTx == Merge(txData, [id |-> RandomUUID(n + 1), date |-> DateOf(t), time |-> TimeOf(t)])
       IN  Updated([transactions |-> Append(d.transactions, newTx), xp |-> d.xp + XP_TRANSACTION],
                   "", 1)

\* the modal's submit button: handleSubmit, then onConfirm = handleSaveTransaction
SubmitTransaction(d, editingTransaction, f, t, n) ==
  LET confirmed == handleSubmit(d, editingTransaction, f)
  IN  IF confirmed = <<>> THEN Returned("")
      ELSE handleSaveTransaction(d, editingTransaction, confirmed[1], t, n)

(* ---------------------------- handleTransfer -------------------------- *)

TransferAmounts == {"", "-1", "0", "1", "2"}

\* the values the two selects are submitted with: the ids of the accounts,
\* and '' (a select with no option chosen), which no account has
TransferIds(d) == AccountIds(d) \cup {""}

XP_TRANSFER == 30

RequiredFieldMessage == "(browser) fill out this field"

\* <input name="amount" type="number" required>: the browser raises the
\* submit event only when the field holds a number
TransferFormValid(amountField) == amountField # ""

\* a transfer whose credit leg is booked on the source account
handleTransfer_CreditOnSource(d, fromId, toId, amountField, t, n) ==
  LET amount == ParseFloat(amountField)
      fromAcc == Find(d.accounts, {a \in Range(d.accounts) : a.id = fromId})
      toAcc == Find(d.accounts, {a \in Range(d.accounts) : a.id = toId})
      commonId == RandomUUID(n + 1)
      date == DateOf(t)
      time == TimeOf(t)
      txOut == [id |-> RandomUUID(n + 2),
                description |-> "Transferência para " \o toAcc.name,
                amount |-> amount,
                type |-> "transfer",
                category |-> "Transferência",
                accountId |-> fromId,
                accountName |-> fromAcc.name,
                destinationAccountId |-> toId,
                date |-> date, time |-> time, linkedTransferId |-> commonId]
      txIn == [id |-> RandomUUID(n + 3),
               description |-> "Transferência de " \o fromAcc.name,
               amount |-> amount,
               type |-> "transfer",
               category |-> "Transferência",
               accountId |-> fromId,
               accountName |-> fromAcc.name,
               date |-> date, time |-> time, linkedTransferId |-> commonId]
  IN  IF fromId = toId THEN Returned("As contas de origem e destino devem ser diferentes.")
      ELSE IF Leq(amount, 0) THEN Returned("Valor inválido.")
      ELSE IF fromAcc = NotFound \/ toAcc = NotFound THEN Returned("")
      ELSE Updated([transactions |-> d.transactions \o <<txOut, txIn>>, xp |-> d.xp + XP_TRANSFER],
                   "", 3)

handleTransfer(d, fromId, toId, amountField, t, n) ==
  LET amount == ParseFloat(amountField)
      fromAcc == Find(d.accounts, {a \in Range(d.accounts) : a.id = fromId})
      toAcc == Find(d.accounts, {a \in Range(d.accounts) : a.id = toId})
      commonId == RandomUUID(n + 1)
      date == DateOf(t)
      time == TimeOf(t)
      txOut == [id |-> RandomUUID(n + 2),
                description |-> "Transferência para " \o toAcc.name,
                amount |-> amount,
                type |-> "transfer",
                category |-> "Transferência",
                accountId |-> fromId,
                accountName |-> fromAcc.name,
                destinationAccountId |-> toId,
                date |-> date, time |-> time, linkedTransferId |-> commonId]
      txIn == [id |-> RandomUUID(n + 3),
               description |-> "Transferência de " \o fromAcc.name,
               amount |-> amount,
               type |-> "transfer",
               category |-> "Transferência",
               accountId |-> toId,
               accountName |-> toAcc.name,
               date |-> date, time |-> time, linkedTransferId |-> commonId]
  IN  IF fromId = toId THEN Returned("As contas de origem e destino devem ser diferentes.")
      ELSE IF Leq(amount, 0) THEN Returned("Valor inválido.")
      ELSE IF fromAcc = NotFound \/ toAcc = NotFound THEN Returned("")
      ELSE Updated([transactions |-> d.transactions \o <<txOut, txIn>>, xp |-> d.xp + XP_TRANSFER],
                   "", 3)

\* the transfer form's submit button
SubmitTransfer(d, fromId, toId, amountField, t, n) ==
  IF TransferFormValid(amountField)
  THEN handleTransfer(d, fromId, toId, amountField, t, n)
  ELSE Returned(RequiredFieldMessage)

(* ----------------------------- handleSaveGoal ------------------------- *)

GoalNames == {"", "Casa", "Carro"}

GoalTargets == {"2"}

\* the deadline picked, as the calendar day DateOf counts
GoalDeadlines == {2}

NoGoal == [none |-> TRUE]

XP_GOAL == 100

\* <input name="gName" required>, <input name="gTarget" type="number" required>
GoalFormValid(gName, gTargetField) == gName # "" /\ gTargetField # ""

handleSaveGoal(d, editingGoal, gName, gTargetField, gDeadline, n) ==
  LET gTarget == ParseFloat(gTargetField)
      goalId == IF editingGoal # NoGoal THEN editingGoal.id ELSE RandomUUID(n + 1)
      linkedAccountId == IF editingGoal # NoGoal THEN editingGoal.linkedAccountId ELSE RandomUUID(n + 2)
      goalAccount == [id |-> linkedAccountId, name |-> "Meta: " \o gName,
                      color |-> "#10b981", isGoalAccount |-> TRUE]
      newAccounts ==
        IF editingGoal = NoGoal THEN Append(d.accounts, goalAccount)
        ELSE [i \in DOMAIN d.accounts |->
                IF d.accounts[i].id = linkedAccountId
                THEN Merge(d.accounts[i], [name |-> "Meta: " \o gName])
                ELSE d.accounts[i]]
      gData == [id |-> goalId, name |-> gName, target |-> gTarget, current |-> 0,
                deadline |-> gDeadline, linkedAccountId |-> linkedAccountId,
                saveFrequency |-> IF editingGoal # NoGoal /\ Truthy(editingGoal, "saveFrequency")
                                  THEN editingGoal.saveFrequency ELSE "monthly"]
  IN  IF editingGoal # NoGoal
      THEN Updated([goals |-> [i \in DOMAIN d.goals |->
                                 IF d.goals[i].id = goalId THEN gData ELSE d.goals[i]],
                    accounts |-> newAccounts],
                   "", 0)
      ELSE Updated([goals |-> Append(d.goals, gData), accounts |-> newAccounts,
                    xp |-> d.xp + XP_GOAL],
                   "", 2)

\* the goal form's submit button
SubmitGoal(d, editingGoal, gName, gTargetField, gDeadline, n) ==
  IF GoalFormValid(gName, gTargetField)
  THEN handleSaveGoal(d, editingGoal, gName, gTargetField, gDeadline, n)
  ELSE Returned(RequiredFieldMessage)

(* --------------------- handleDeleteGoal, handleDeleteAccount ---------- *)

\* a goal deletion that leaves the reserve account behind
handleDeleteGoal_GoalOnly(d, goal, confirmed) ==
  IF confirmed
  THEN Updated([goals |-> SelectSeq(d.goals, LAMBDA g : g.id # goal.id)], "", 0)
  ELSE Returned("")

\* a goal deletion that takes back what the creation awarded
handleDeleteGoal_Refund(d, goal, confirmed) ==
  IF confirmed
  THEN Updated([goals |-> SelectSeq(d.goals, LAMBDA g : g.id # goal.id),
                accounts |-> SelectSeq(d.accounts, LAMBDA a : a.id # goal.linkedAccountId),
                xp |-> d.xp - XP_GOAL],
               "", 0)
  ELSE Returned("")

handleDeleteGoal(d, goal, confirmed) ==
  IF confirmed
  THEN Updated([goals |-> SelectSeq(d.goals, LAMBDA g : g.id # goal.id),
                accounts |-> SelectSeq(d.accounts, LAMBDA a : a.id # goal.linkedAccountId)],
               "", 0)
  ELSE Returned("")

\* an account deletion that never looks for the goal of the account
handleDeleteAccount_NoCascade(d, id, confirmed) ==
  IF confirmed
  THEN Updated([accounts |-> SelectSeq(d.accounts, LAMBDA a : a.id # id)], "", 0)
  ELSE Returned("")

handleDeleteAccount(d, id, confirmed) ==
  IF confirmed
  THEN LET account == Find(d.accounts, {a \in Range(d.accounts) : a.id = id})
       IN  IF "isGoalAccount" \in DOMAIN account /\ account.isGoalAccount
           THEN Updated([accounts |-> SelectSeq(d.accounts, LAMBDA a : a.id # id),
                         goals |-> SelectSeq(d.goals, LAMBDA g : g.linkedAccountId # id)],
                        "", 0)
           ELSE Updated([accounts |-> SelectSeq(d.accounts, LAMBDA a : a.id # id)], "", 0)
  ELSE Returned("")

(* ----------------------------- moveGoalValue -------------------------- *)

GoalAmounts == {"", "0", "1", "2"}

XP_GOAL_MOVE == 50

IsGoalAccount(a) == "isGoalAccount" \in DOMAIN a /\ a.isGoalAccount

\* goalContributionAccount || (data.accounts.find(a => !a.isGoalAccount)?.id || '')
\* a counter account that is the first account that is no reserve, whatever
\* was selected
CounterAccountId_First(d, gca) ==
  LET first == Find(d.accounts, {a \in Range(d.accounts) : ~IsGoalAccount(a)})
  IN  IF first # NotFound /\ Truthy(first, "id") THEN first.id ELSE ""

CounterAccountId(d, gca) ==
  IF gca # "" THEN gca
  ELSE LET first == Find(d.accounts, {a \in Range(d.accounts) : ~IsGoalAccount(a)})
       IN  IF first # NotFound /\ Truthy(first, "id") THEN first.id ELSE ""

moveGoalValue(d, goal, direction, amountField, gca, t, n) ==
  LET amount == ParseFloat(amountField)
      sourceAccountId == IF direction = "in" THEN CounterAccountId(d, gca) ELSE goal.linkedAccountId
      targetAccountId == IF direction = "in" THEN goal.linkedAccountId ELSE CounterAccountId(d, gca)
      fromAcc == Find(d.accounts, {a \in Range(d.accounts) : a.id = sourceAccountId})
      toAcc == Find(d.accounts, {a \in Range(d.accounts) : a.id = targetAccountId})
      commonId == RandomUUID(n + 1)
      date == DateOf(t)
      time == TimeOf(t)
      description == IF direction = "in" THEN "Aporte Meta: " \o goal.name
                     ELSE "Resgate Meta: " \o goal.name
      txOut == [id |-> RandomUUID(n + 2),
                description |-> description,
                amount |-> amount,
                type |-> "transfer",
                category |-> "Investimentos",
                accountId |-> sourceAccountId,
                accountName |-> fromAcc.name,
                destinationAccountId |-> targetAccountId,
                date |-> date, time |-> time, linkedTransferId |-> commonId]
      txIn == [id |-> RandomUUID(n + 3),
               description |-> description,
               amount |-> amount,
               type |-> "transfer",
               category |-> "Investimentos",
               accountId |-> targetAccountId,
               accountName |-> toAcc.name,
               date |-> date, time |-> time, linkedTransferId |-> commonId]
  IN  IF IsNaN(amount) \/ Leq(amount, 0) THEN Returned("Insira um valor positivo.")
      ELSE IF fromAcc = NotFound \/ toAcc = NotFound THEN Returned("Selecione uma conta válida.")
      ELSE Updated([transactions |-> d.transactions \o <<txOut, txIn>>, xp |-> d.xp + XP_GOAL_MOVE],
                   "", 3)

(* ------------------------- cadence buttons (515) ---------------------- *)

SaveFrequencies == {"daily", "monthly", "yearly"}

setSaveFrequency(d, goal, f) ==
  Updated([goals |-> [i \in DOMAIN d.goals |->
                        IF d.goals[i].id = goal.id
                        THEN Merge(d.goals[i], [saveFrequency |-> f])
                        ELSE d.goals[i]]],
          "", 0)

(* ------------------------ renameCategory, renameAccount --------------- *)

\* what the user leaves in the rename field and the new-category field
CategoryNames == {"", "Transporte", "Viagem"}

AccountNames == {"", "Poupança"}

\* a rename that changes the category list and leaves the transactions
renameCategory_ListOnly(d, oldName, newName) ==
  IF newName = "" \/ oldName = newName THEN Returned("")
  ELSE Updated([categories |-> [i \in DOMAIN d.categories |->
                                  IF d.categories[i] = oldName THEN newName ELSE d.categories[i]]],
               "", 0)

renameCategory(d, oldName, newName) ==
  IF newName = "" \/ oldName = newName THEN Returned("")
  ELSE Updated([categories |-> [i \in DOMAIN d.categories |->
                                  IF d.categories[i] = oldName THEN newName ELSE d.categories[i]],
                transactions |-> [i \in DOMAIN d.transactions |->
                                    IF d.transactions[i].category = oldName
                                    THEN Merge(d.transactions[i], [category |-> newName])
                                    ELSE d.transactions[i]]],
               "", 0)

renameAccount(d, id, newName) ==
  IF newName = "" THEN Returned("")
  ELSE Updated([accounts |-> [i \in DOMAIN d.accounts |->
                                IF d.accounts[i].id = id
                                THEN Merge(d.accounts[i], [name |-> newName])
                                ELSE d.accounts[i]],
                transactions |-> [i \in DOMAIN d.transactions |->
                                    IF d.transactions[i].accountId = id
                                    THEN Merge(d.transactions[i], [accountName |-> newName])
                                    ELSE d.transactions[i]]],
               "", 0)

(* ------------------- manage tab: inline handlers ---------------------- *)

\* line 567: the + button beside #newAcc
addAccount(d, value, n) ==
  IF value # ""
  THEN Updated([accounts |-> Append(d.accounts, [id |-> RandomUUID(n + 1), name |-> value,
                                                 color |-> "#3b82f6"])],
               "", 1)
  ELSE Returned("")

\* line 592: the + button beside #newCat
addCategory(d, value) ==
  IF value # "" THEN Updated([categories |-> Append(d.categories, value)], "", 0)
  ELSE Returned("")

\* a removal that takes the transactions of the category with it
deleteCategory_Cascade(d, cat, confirmed) ==
  IF confirmed
  THEN Updated([categories |-> SelectSeq(d.categories, LAMBDA c : c # cat),
                transactions |-> SelectSeq(d.transactions, LAMBDA t : t.category # cat)],
               "", 0)
  ELSE Returned("")

\* line 583: the remove button of a category
deleteCategory(d, cat, confirmed) ==
  IF confirmed THEN Updated([categories |-> SelectSeq(d.categories, LAMBDA c : c # cat)], "", 0)
  ELSE Returned("")

(* ---------------------------- handleImportData ------------------------ *)

\* the files picked for import: one that JSON.parse rejects, the backup of a
\* session that recorded one income, and a document with two fields only
ImportFiles ==
  {[parses |-> FALSE],
   [parses |-> TRUE,
    json |-> [transactions |-> <<[description |-> "Mercado", amount |-> 1, type |-> "income",
                                  category |-> "Salário", accountId |-> "1",
                                  accountName |-> "Carteira", isRecurring |-> FALSE,
                                  frequency |-> "none", id |-> "backup-1",
                                  date |-> 0, time |-> 0]>>,
              accounts |-> InitialData.accounts,
              categories |-> InitialData.categories,
              goals |-> <<>>,
              xp |-> 25,
              lastSync |-> ISOString(0)]],
   [parses |-> TRUE, json |-> [transactions |-> <<>>, xp |-> 0]]}

\* an import that empties the transaction list before it finds that the file
\* does not parse
handleImportData_Partial(d, file) ==
  IF file.parses THEN Updated(file.json, "Dados importados com sucesso!", 0)
  ELSE Updated([transactions |-> <<>>], "Erro ao importar arquivo JSON. Verifique o formato.", 0)

\* reader.onload: try { updateData(JSON.parse(text)); alert } catch { alert }
handleImportData(d, file) ==
  IF file.parses THEN Updated(file.json, "Dados importados com sucesso!", 0)
  ELSE Returned("Erro ao importar arquivo JSON. Verifique o formato.")

(* ------------------------------- events ------------------------------- *)

Init ==
  /\ data = InitialData
  /\ prev = InitialData
  /\ last = [op |-> "start"]
  /\ notice = ""
  /\ now = 0
  /\ uuid = 0
  /\ goalContributionAccount = ""
  /\ levelInfo = getLevel(InitialData.xp)

\* one event: the handler ran on the rendered data and left result r
Event(what, r) ==
  /\ now < MaxClock
  /\ notice' = r.notice
  /\ IF r.update # <<>>
     THEN /\ data' = updateData(data, r.update[1], now + 1)
          /\ prev' = data
          /\ last' = what
          /\ now' = now + 1
          /\ uuid' = uuid + r.uuids
     ELSE UNCHANGED <<data, prev, last, now, uuid>>
  /\ levelInfo' = getLevel(data'.xp)
  /\ UNCHANGED goalContributionAccount

DeleteTransaction ==
  \E i \in DOMAIN data.transactions, confirmed \in BOOLEAN :
    Event([op |-> "handleDeleteTransaction", id |-> data.transactions[i].id],
          handleDeleteTransaction(data, data.transactions[i].id, confirmed))

NewTransaction ==
  \E f \in FormFillings(data, NoTransaction) :
    Event([op |-> "handleSaveTransaction", editing |-> NoTransaction, form |-> f],
          SubmitTransaction(data, NoTransaction, f, now + 1, uuid))

EditTransaction ==
  \E i \in DOMAIN data.transactions :
    \E f \in FormFillings(data, data.transactions[i]) :
      Event([op |-> "handleSaveTransaction", editing |-> data.transactions[i], form |-> f],
            SubmitTransaction(data, data.transactions[i], f, now + 1, uuid))

Transfer ==
  \E fromId \in TransferIds(data), toId \in TransferIds(data), amountField \in TransferAmounts :
    Event([op |-> "handleTransfer", fromId |-> fromId, toId |-> toId, amount |-> amountField],
          SubmitTransfer(data, fromId, toId, amountField, now + 1, uuid))

NewGoal ==
  \E gName \in GoalNames, gTarget \in GoalTargets, gDeadline \in GoalDeadlines :
    Event([op |-> "handleSaveGoal", editing |-> NoGoal, gName |-> gName],
          SubmitGoal(data, NoGoal, gName, gTarget, gDeadline, uuid))

EditGoal ==
  \E i \in DOMAIN data.goals :
    \E gName \in GoalNames, gTarget \in GoalTargets, gDeadline \in GoalDeadlines :
      Event([op |-> "handleSaveGoal", editing |-> data.goals[i], gName |-> gName],
            SubmitGoal(data, data.goals[i], gName, gTarget, gDeadline, uuid))

DeleteGoal ==
  \E i \in DOMAIN data.goals, confirmed \in BOOLEAN :
    Event([op |-> "handleDeleteGoal", goal |-> data.goals[i]],
          handleDeleteGoal(data, data.goals[i], confirmed))

DeleteAccount ==
  \E i \in DOMAIN data.accounts, confirmed \in BOOLEAN :
    Event([op |-> "handleDeleteAccount", id |-> data.accounts[i].id],
          handleDeleteAccount(data, data.accounts[i].id, confirmed))

MoveGoalValue ==
  \E i \in DOMAIN data.goals, direction \in {"in", "out"}, amountField \in GoalAmounts :
    Event([op |-> "moveGoalValue", goal |-> data.goals[i], direction |-> direction,
           amount |-> amountField, counter |-> goalContributionAccount],
          moveGoalValue(data, data.goals[i], direction, amountField, goalContributionAccount,
                        now + 1, uuid))

\* line 522: the select of a goal card, listing the accounts that are no reserve
SelectContributionAccount ==
  /\ now < MaxClock
  /\ Len(data.goals) > 0
  /\ \E i \in DOMAIN data.accounts :
       /\ ~IsGoalAccount(data.accounts[i])
       /\ goalContributionAccount' = data.accounts[i].id
  /\ notice' = ""
  /\ UNCHANGED <<data, prev, last, now, uuid, levelInfo>>

SetSaveFrequency ==
  \E i \in DOMAIN data.goals, f \in SaveFrequencies :
    Event([op |-> "setSaveFrequency", goal |-> data.goals[i], saveFrequency |-> f],
          setSaveFrequency(data, data.goals[i], f))

RenameCategory ==
  \E oldName \in Range(Take(data.categories, PickWidth)), newName \in CategoryNames :
    Event([op |-> "renameCategory", oldName |-> oldName, newName |-> newName],
          renameCategory(data, oldName, newName))

RenameAccount ==
  \E i \in DOMAIN data.accounts, newName \in AccountNames :
    Event([op |-> "renameAccount", id |-> data.accounts[i].id, newName |-> newName],
          renameAccount(data, data.accounts[i].id, newName))

AddAccount ==
  \E value \in AccountNames :
    Event([op |-> "addAccount", value |-> value], addAccount(data, value, uuid))

AddCategory ==
  \E value \in CategoryNames :
    Event([op |-> "addCategory", value |-> value], addCategory(data, value))

DeleteCategory ==
  \E cat \in Range(Take(data.categories, PickWidth)), confirmed \in BOOLEAN :
    Event([op |-> "deleteCategory", cat |-> cat], deleteCategory(data, cat, confirmed))

Next ==
  \/ NewTransaction
  \/ EditTransaction
  \/ DeleteTransaction
  \/ Transfer
  \/ NewGoal
  \/ EditGoal
  \/ DeleteGoal
  \/ DeleteAccount
  \/ MoveGoalValue
  \/ SelectContributionAccount
  \/ SetSaveFrequency
  \/ RenameCategory
  \/ RenameAccount
  \/ AddAccount
  \/ AddCategory
  \/ DeleteCategory

Spec == Init /\ [][Next]_vars

\* the same, with the import of a backup file
ImportData ==
  \E file \in ImportFiles :
    Event([op |-> "handleImportData", file |-> file], handleImportData(data, file))

NextImport == Next \/ ImportData

SpecImport == Init /\ [][NextImport]_vars

\* the level display alone, App starting from a saved document with any xp
NotRendered == [name |-> "", progress |-> [num |-> 0, den |-> 1]]

InitLevel ==
  /\ \E xp \in 0..MaxXp : data = [InitialData EXCEPT !.xp = xp]
  /\ prev = data
  /\ last = [op |-> "start"]
  /\ notice = ""
  /\ now = 0
  /\ uuid = 0
  /\ goalContributionAccount = ""
  /\ levelInfo = NotRendered

\* line 83: useMemo(() => getLevel(data.xp), [data.xp])
RenderLevel ==
  /\ levelInfo = NotRendered
  /\ levelInfo' = getLevel(data.xp)
  /\ UNCHANGED <<data, prev, last, notice, now, uuid, goalContributionAccount>>

SpecLevel == InitLevel /\ [][RenderLevel]_vars

(* ------------------------- export, then import ----------------------- *)

\* JSON has no NaN: JSON.stringify writes null for it
Null == [null |-> TRUE]

JsonNumber(x) == IF IsNaN(x) THEN Null ELSE x

\* an export that writes the transactions without their time
JsonStringify_NoTime(d) ==
  [text |->
     [d EXCEPT
        !.transactions = [i \in DOMAIN @ |->
                            [k \in DOMAIN @[i] \ {"time"} |-> @[i][k]]]]]

\* line 599: JSON.stringify(data), the text of finance_backup.json; the
\* text is kept as the tree of values JSON.parse reads from it
JsonStringify(d) ==
  [text |->
     [d EXCEPT
        !.transactions = [i \in DOMAIN @ |-> [@[i] EXCEPT !.amount = JsonNumber(@)]],
        !.goals = [i \in DOMAIN @ |-> [@[i] EXCEPT !.target = JsonNumber(@)]]]]

JsonParse(file) == file.text

\* the export button, then the import input with the file just written
ReimportExport ==
  LET file == [parses |-> TRUE, json |-> JsonParse(JsonStringify(data))]
  IN  Event([op |-> "handleImportData", file |-> file, exported |-> data],
            handleImportData(data, file))

NextRoundTrip == Next \/ ReimportExport

SpecRoundTrip == Init /\ [][NextRoundTrip]_vars

(* ----------------- two handlers of one rendered state ---------------- *)

\* the forms of a new transaction that are confirmed on one rendered state
SnapshotForms(d) ==
  {[OpenedForm(d, NoTransaction) EXCEPT !.description = "Mercado", !.amount = a] : a \in {"1", "2"}}

\* what a handler that creates records leaves when it runs on the rendered
\* state d: a new transaction, or a transfer between the first two accounts
SnapshotResults(d, t, n) ==
  {SubmitTransaction(d, NoTransaction, f, t, n) : f \in SnapshotForms(d)}
  \cup (IF Len(d.accounts) >= 2
        THEN {SubmitTransfer(d, d.accounts[1].id, d.accounts[2].id, "1", t, n)}
        ELSE {})

\* two handlers run before the state they read is rendered again: both
\* closures hold the same data, and setData applies the two updaters in turn
TwoOnSameSnapshot ==
  /\ now + 2 <= MaxClock
  /\ \E r1 \in SnapshotResults(data, now + 1, uuid) :
       /\ r1.update # <<>>
       /\ \E r2 \in SnapshotResults(data, now + 2, uuid + r1.uuids) :
            /\ r2.update # <<>>
            /\ data' = updateData(updateData(data, r1.update[1], now + 1), r2.update[1], now + 2)
            /\ last' = [op |-> "sameSnapshot", first |-> r1.update[1], second |-> r2.update[1]]
            /\ uuid' = uuid + r1.uuids + r2.uuids
            /\ notice' = r2.notice
  /\ prev' = data
  /\ now' = now + 2
  /\ levelInfo' = getLevel(data'.xp)
  /\ UNCHANGED goalContributionAccount

NextSameSnapshot == Next \/ TwoOnSameSnapshot

SpecSameSnapshot == Init /\ [][NextSameSnapshot]_vars

(* ------------------- goal cards: the plan of a goal ------------------- *)

PlanTargets == {2, 1200}

PlanBalances == {-1, 0, 1, 2, 1200, 1300}

\* <<>> for a goal without deadline, <<day>> for a deadline
PlanDeadlines == {<<>>, <<0>>, <<1>>, <<29>>, <<30>>, <<31>>, <<365>>, <<366>>}

PlanReserve == [id |-> "reserve", name |-> "Meta: Casa", color |-> "#10b981", isGoalAccount |-> TRUE]

\* a goal as handleSaveGoal writes it, or without deadline as an older document has it
PlanGoal(target, deadline, freq) ==
  IF deadline = <<>>
  THEN [id |-> "goal", name |-> "Casa", target |-> target, current |-> 0,
        linkedAccountId |-> PlanReserve.id, saveFrequency |-> freq]
  ELSE [id |-> "goal", name |-> "Casa", target |-> target, current |-> 0,
        deadline |-> deadline[1], linkedAccountId |-> PlanReserve.id, saveFrequency |-> freq]

\* the transactions that leave the reserve with this balance
PlanTransactions(balance) ==
  IF balance = 0 THEN <<>>
  ELSE <<[id |-> "t1", description |-> "Mercado",
          amount |-> IF balance > 0 THEN balance ELSE -balance,
          type |-> IF balance > 0 THEN "income" ELSE "expense",
          category |-> "Outros", accountId |-> PlanReserve.id, accountName |-> PlanReserve.name,
          isRecurring |-> FALSE, frequency |-> "none", date |-> 0, time |-> 0]>>

InitPlan ==
  /\ \E target \in PlanTargets, balance \in PlanBalances, deadline \in PlanDeadlines,
        freq \in SaveFrequencies, kept \in BOOLEAN :
       data = [InitialData EXCEPT
                 !.accounts = IF kept THEN Append(@, PlanReserve) ELSE @,
                 !.goals = <<PlanGoal(target, deadline, freq)>>,
                 !.transactions = PlanTransactions(balance)]
  /\ prev = data
  /\ last = [op |-> "start"]
  /\ notice = ""
  /\ now \in 0..MaxPlanToday
  /\ uuid = 0
  /\ goalContributionAccount = ""
  /\ levelInfo = getLevel(data.xp)

\* lines 499-500: currentFreq = goal.saveFrequency || 'monthly';
\* plan = calculateGoalPlan(goal, currentFreq)
RenderPlan ==
  /\ last.op = "start"
  /\ \E i \in DOMAIN data.goals :
       LET goal == data.goals[i]
           currentFreq == IF Truthy(goal, "saveFrequency") THEN goal.saveFrequency ELSE "monthly"
       IN  last' = [op |-> "calculateGoalPlan", goal |-> goal, freq |-> currentFreq,
                    plan |-> calculateGoalPlan(data, goal, currentFreq, now)]
  /\ UNCHANGED <<data, prev, notice, now, uuid, goalContributionAccount, levelInfo>>

SpecPlan == InitPlan /\ [][RenderPlan]_vars

(* ------------------------------- claims ------------------------------- *)

\* the transfer-group id of a transaction, '' when it has none
LinkOf(t) == IF "linkedTransferId" \in DOMAIN t THEN t.linkedTransferId ELSE ""

\* the positions of the transactions of group id
Legs(txs, id) == {i \in DOMAIN txs : LinkOf(txs[i]) = id}

BalanceOf(d, id) == accountBalances(d)[id]

\* the transaction the last deletion was aimed at
DeletedTx == Find(prev.transactions, {t \in Range(prev.transactions) : t.id = last.id})

\* the accounts of the legs of the group the deleted transaction was in
DeletedLegAccounts ==
  {prev.transactions[i].accountId : i \in Legs(prev.transactions, LinkOf(DeletedTx))}

\* C1: deleting a transaction that carries a linkedTransferId removes every
\* transaction of that group, whichever leg was aimed at: two transactions
\* go, every other transaction stays as it was and in place, and the balance
\* of every account that is not an account of the two legs is as before.
C1_DeleteRemovesBothLegs ==
  (last.op = "handleDeleteTransaction" /\ LinkOf(DeletedTx) # "") =>
    /\ Legs(data.transactions, LinkOf(DeletedTx)) = {}
    /\ Len(data.transactions) = Len(prev.transactions) - 2
    /\ \A i \in DOMAIN prev.transactions :
         LinkOf(prev.transactions[i]) # LinkOf(DeletedTx) =>
           \E j \in DOMAIN data.transactions : data.transactions[j] = prev.transactions[i]
    /\ \A j \in DOMAIN data.transactions :
         \E i \in DOMAIN prev.transactions : data.transactions[j] = prev.transactions[i]
    /\ data.accounts = prev.accounts
    /\ \A id \in AccountIds(data) \ DeletedLegAccounts : BalanceOf(data, id) = BalanceOf(prev, id)

\* a leg was deleted while another transaction and a third account existed
C1_Witness ==
  /\ last.op = "handleDeleteTransaction"
  /\ LinkOf(DeletedTx) # ""
  /\ Len(prev.transactions) = 3
  /\ Len(data.transactions) = 1

\* C2: the two legs of a transfer are of kind transfer and carry the same
\* amount, date and time, in every reachable state.
C2_LegsAgree ==
  \A i, j \in DOMAIN data.transactions :
    (LinkOf(data.transactions[i]) # "" /\ LinkOf(data.transactions[i]) = LinkOf(data.transactions[j])) =>
      /\ data.transactions[i].type = "transfer"
      /\ data.transactions[i].amount = data.transactions[j].amount
      /\ data.transactions[i].date = data.transactions[j].date
      /\ data.transactions[i].time = data.transactions[j].time

\* C3: from the empty list and without import, every linkedTransferId in the
\* list is carried by exactly two transactions, one with destinationAccountId
\* set and one without.
C3_NoLegWithoutSibling ==
  \A i \in DOMAIN data.transactions :
    LinkOf(data.transactions[i]) # "" =>
      LET legs == Legs(data.transactions, LinkOf(data.transactions[i]))
      IN  /\ Cardinality(legs) = 2
          /\ Cardinality({k \in legs : Truthy(data.transactions[k], "destinationAccountId")}) = 1

\* a pair is in the list after one of its legs was edited
C3_Witness ==
  /\ last.op = "handleSaveTransaction"
  /\ last.editing # NoTransaction
  /\ LinkOf(last.editing) # ""
  /\ Legs(data.transactions, LinkOf(last.editing)) # {}

RECURSIVE SumOver(_, _)
SumOver(f, ids) ==
  IF ids = {} THEN 0
  ELSE LET id == CHOOSE x \in ids : TRUE IN f[id] + SumOver(f, ids \ {id})

\* C4: the balances of all accounts add up to the income total minus the
\* expense total.
C4_BalancesSumToNet ==
  SumOver(accountBalances(data), AccountIds(data)) = stats(data).balance

\* the two transactions the last transfer appended
TransferOut == data.transactions[Len(data.transactions) - 1]

TransferIn == data.transactions[Len(data.transactions)]

\* C5: a transfer of a positive amount a from account X to another account
\* Y appends two transactions in one mutation: they share a linkedTransferId
\* no earlier transaction has, and amount, date and time; the debit leg is
\* on X with destination Y, the credit leg on Y with no destination; X's
\* balance falls by a, Y's rises by a, the others stay, and xp rises by 30.
C5_TransferAppendsPair ==
  last.op = "handleTransfer" =>
    LET a == ParseFloat(last.amount)
        X == last.fromId
        Y == last.toId
    IN  /\ a > 0 /\ X # Y /\ {X, Y} \subseteq AccountIds(prev)
        /\ Len(data.transactions) = Len(prev.transactions) + 2
        /\ SubSeq(data.transactions, 1, Len(prev.transactions)) = prev.transactions
        /\ LinkOf(TransferOut) # "" /\ LinkOf(TransferOut) = LinkOf(TransferIn)
        /\ Legs(prev.transactions, LinkOf(TransferOut)) = {}
        /\ TransferOut.type = "transfer" /\ TransferIn.type = "transfer"
        /\ TransferOut.amount = a /\ TransferIn.amount = a
        /\ TransferOut.date = TransferIn.date /\ TransferOut.time = TransferIn.time
        /\ TransferOut.accountId = X /\ TransferOut.destinationAccountId = Y
        /\ TransferIn.accountId = Y /\ "destinationAccountId" \notin DOMAIN TransferIn
        /\ data.accounts = prev.accounts
        /\ BalanceOf(data, X) = BalanceOf(prev, X) - a
        /\ BalanceOf(data, Y) = BalanceOf(prev, Y) + a
        /\ \A id \in AccountIds(data) \ {X, Y} : BalanceOf(data, id) = BalanceOf(prev, id)
        /\ data.xp = prev.xp + 30

\* a transfer of 2 was made when the list already held transactions and a
\* third account existed
C5_Witness ==
  /\ last.op = "handleTransfer"
  /\ last.amount = "2"
  /\ Len(prev.transactions) > 0
  /\ Len(data.accounts) > 2

\* the requests the transfer form can be submitted with
TransferRequests(d) == TransferIds(d) \X TransferIds(d) \X TransferAmounts

\* source equals destination, or the amount is no positive number, or an
\* id is the id of no account
InvalidTransfer(d, req) ==
  \/ req[1] = req[2]
  \/ IsNaN(ParseFloat(req[3])) \/ ParseFloat(req[3]) <= 0
  \/ req[1] \notin AccountIds(d)
  \/ req[2] \notin AccountIds(d)

\* data after an event whose handler left result r
After(d, r, t) == IF r.update # <<>> THEN updateData(d, r.update[1], t) ELSE d

C7_RejectedTransferReported ==
  \A req \in TransferRequests(data) :
    (\/ req[1] = req[2]
     \/ Leq(ParseFloat(req[3]), 0)
     \/ ~IsNaN(ParseFloat(req[3])) /\ ~({req[1], req[2]} \subseteq AccountIds(data))) =>
      /\ handleTransfer(data, req[1], req[2], req[3], now + 1, uuid).update = <<>>
      /\ handleTransfer(data, req[1], req[2], req[3], now + 1, uuid).notice # ""

\* C8 as claimed: xp after a mutation is never lower than before it, import
\* included.
C8_XpNeverDecreases == data.xp >= prev.xp

\* C8 as amended: xp after a mutation other than an import is never lower
\* than before it.
C8_XpNeverDecreasesWithoutImport ==
  last.op # "handleImportData" => data.xp >= prev.xp

\* xp rose in a mutation made after a backup had been imported
C8_Witness ==
  /\ last.op \notin {"handleImportData", "start"}
  /\ data.xp > prev.xp
  /\ \E i \in DOMAIN prev.transactions : prev.transactions[i].id = "backup-1"

\* what a mutation awards: 25 for a new transaction, 30 for a transfer, 100
\* for a new goal, 50 for a goal movement, nothing for anything else
Award ==
  CASE last.op = "handleSaveTransaction" -> IF last.editing = NoTransaction THEN 25 ELSE 0
    [] last.op = "handleTransfer" -> 30
    [] last.op = "handleSaveGoal" -> IF last.editing = NoGoal THEN 100 ELSE 0
    [] last.op = "moveGoalValue" -> 50
    [] last.op \in {"start", "handleDeleteTransaction", "handleDeleteGoal",
                    "handleDeleteAccount", "setSaveFrequency", "renameCategory",
                    "renameAccount", "addAccount", "addCategory", "deleteCategory",
                    "handleImportData"} -> 0

\* C9 as claimed: xp changes only by the four awards: a new transaction adds
\* 25, a transfer 30, a new goal 100, a goal movement 50; every other
\* mutation leaves it as it was.
C9_XpAwards == data.xp = prev.xp + Award

\* C9 as amended: a new transaction adds 25 to xp, a transfer 30, a new goal
\* 100, a goal movement 50; editing or deleting a transaction or a goal,
\* changing a cadence, and creating, renaming or deleting an account or a
\* category leave it as it was; an import sets it to the document's xp when
\* the document has one.
C9_XpAwardsOrImported ==
  IF last.op = "handleImportData"
  THEN data.xp = IF "xp" \in DOMAIN last.file.json THEN last.file.json.xp ELSE prev.xp
  ELSE data.xp = prev.xp + Award

\* a goal movement was made, and before it a goal created
C9_Witness ==
  /\ last.op = "moveGoalValue"
  /\ prev.xp >= 100
  /\ data.xp = prev.xp + 50

LevelRank(name) ==
  CASE name = "Poupador" -> 0
    [] name = "Investidor" -> 1
    [] name = "Estrategista" -> 2
    [] name = "Mestre das Finanças" -> 3

\* C10: for every xp >= 0, with index = xp div 500: the name is Poupador,
\* Investidor, Estrategista for index 0, 1, 2 and Mestre das Finanças from 3
\* on; progress is (xp mod 500)/500 * 100, at least 0 and below 100, for
\* index 0 to 2 and 100 from 3 on; the rank never falls as xp grows; level(0)
\* is Poupador/0, level(500) Investidor/0, level(2000) Mestre/100.
C10_LevelOfXp ==
  levelInfo # NotRendered =>
    LET xp == data.xp
        index == xp \div 500
        rest == xp - 500 * index
        p == levelInfo.progress
    IN  /\ index = 0 => levelInfo.name = "Poupador"
        /\ index = 1 => levelInfo.name = "Investidor"
        /\ index = 2 => levelInfo.name = "Estrategista"
        /\ index >= 3 => levelInfo.name = "Mestre das Finanças"
        /\ p.den > 0
        /\ index <= 2 => /\ p.num * 500 = rest * 100 * p.den
                         /\ 0 <= p.num /\ p.num < 100 * p.den
        /\ index >= 3 => p.num = 100 * p.den
        /\ \A lower \in 0..xp : LevelRank(getLevel(lower).name) <= LevelRank(levelInfo.name)
        /\ xp = 0 => levelInfo.name = "Poupador" /\ p.num = 0
        /\ xp = 500 => levelInfo.name = "Investidor" /\ p.num = 0
        /\ xp = 2000 => levelInfo.name = "Mestre das Finanças" /\ p.num = 100 * p.den

\* the level of 2000 xp was displayed
C10_Witness ==
  /\ data.xp = 2000
  /\ levelInfo.name = "Mestre das Finanças"

\* the accounts of d that carry id
AccountsWithId(d, id) == {i \in DOMAIN d.accounts : d.accounts[i].id = id}

\* C11: in every reachable state the linkedAccountId of every goal is the id
\* of an account of the list, that account is flagged isGoalAccount, and no
\* other goal refers to it.
C11_GoalReserve ==
  \A i \in DOMAIN data.goals :
    /\ AccountsWithId(data, data.goals[i].linkedAccountId) # {}
    /\ \A k \in AccountsWithId(data, data.goals[i].linkedAccountId) :
         IsGoalAccount(data.accounts[k])
    /\ \A j \in DOMAIN data.goals :
         j # i => data.goals[j].linkedAccountId # data.goals[i].linkedAccountId

\* two goals exist and one of them was just edited
C11_Witness ==
  /\ Len(data.goals) = 2
  /\ last.op = "handleSaveGoal"
  /\ last.editing # NoGoal

\* the account the last handleDeleteAccount removed
DeletedAccount == Find(prev.accounts, {a \in Range(prev.accounts) : a.id = last.id})

\* C12: deleting a goal removes that goal and its linked account and no other
\* goal or account; deleting an account flagged isGoalAccount removes that
\* account and the goal linked to it and no other goal or account.
C12_GoalAndReserveGoTogether ==
  /\ last.op = "handleDeleteGoal" =>
       /\ data.goals = SelectSeq(prev.goals, LAMBDA g : g # last.goal)
       /\ Len(data.goals) = Len(prev.goals) - 1
       /\ data.accounts = SelectSeq(prev.accounts, LAMBDA a : a.id # last.goal.linkedAccountId)
       /\ Len(data.accounts) = Len(prev.accounts) - 1
  /\ (last.op = "handleDeleteAccount" /\ IsGoalAccount(DeletedAccount)) =>
       /\ data.accounts = SelectSeq(prev.accounts, LAMBDA a : a # DeletedAccount)
       /\ Len(data.accounts) = Len(prev.accounts) - 1
       /\ data.goals = SelectSeq(prev.goals, LAMBDA g : g.linkedAccountId # last.id)
       /\ Len(data.goals) = Len(prev.goals) - 1

\* of two goals, the reserve account of one was deleted
C12_Witness ==
  /\ last.op = "handleDeleteAccount"
  /\ IsGoalAccount(DeletedAccount)
  /\ Len(prev.goals) = 2
  /\ Len(data.goals) = 1

\* the least n >= 1 with n days reaching from today to the deadline
DaysTo(deadline, today) ==
  CHOOSE n \in 1..(deadline + 1) :
    /\ n * TicksPerDay >= deadline * TicksPerDay - today
    /\ \A m \in 1..(n - 1) : m * TicksPerDay < deadline * TicksPerDay - today

\* C13: calculateGoalPlan returns no plan exactly when the goal has no
\* deadline or the balance of the linked account is >= the target; otherwise,
\* with remaining = target - balance and daysRemaining = max(ceil(days from
\* today to the deadline), 1), the amount is remaining / daysRemaining for
\* daily, remaining / max(daysRemaining / 30, 1) for monthly and
\* remaining / max(daysRemaining / 365, 1) for yearly; the divisor is at
\* least 1, so the amount is positive and at most remaining; target 1200,
\* balance 0 and 30 days give 1200 monthly and 40 daily.
C13_GoalPlan ==
  last.op = "calculateGoalPlan" =>
    LET goal == last.goal
        balance == IF goal.linkedAccountId \in AccountIds(data)
                   THEN SumAmounts(data.transactions, "income", 1)
                        - SumAmounts(data.transactions, "expense", 1)
                   ELSE 0
        remaining == goal.target - balance
        plan == last.plan
    IN  /\ plan = NoPlan <=> ("deadline" \notin DOMAIN goal \/ balance >= goal.target)
        /\ plan # NoPlan =>
             LET days == DaysTo(goal.deadline, now)
                 a == plan.amount
             IN  /\ a.den >= 1
                 /\ last.freq = "daily" => a.num * days = remaining * a.den
                 /\ (last.freq = "monthly" /\ days >= 30) => a.num * days = remaining * 30 * a.den
                 /\ (last.freq = "monthly" /\ days < 30) => a.num = remaining * a.den
                 /\ (last.freq = "yearly" /\ days >= 365) => a.num * days = remaining * 365 * a.den
                 /\ (last.freq = "yearly" /\ days < 365) => a.num = remaining * a.den
                 /\ a.num > 0
                 /\ a.num <= remaining * a.den
                 /\ (goal.target = 1200 /\ balance = 0 /\ days = 30 /\ last.freq = "monthly") =>
                      a.num = 1200 * a.den
                 /\ (goal.target = 1200 /\ balance = 0 /\ days = 30 /\ last.freq = "daily") =>
                      a.num = 40 * a.den

\* the daily plan of the example was computed: 1200 to save in 30 days
C13_Witness ==
  /\ last.op = "calculateGoalPlan"
  /\ last.freq = "daily"
  /\ last.goal.target = 1200
  /\ last.plan # NoPlan
  /\ last.plan.amount = [num |-> 1200, den |-> 30]

\* what a transaction contributes to the balance of its account
SignedAmount(tx) ==
  IF tx.type = "income" THEN tx.amount
  ELSE IF tx.type = "expense" THEN -tx.amount
  ELSE IF tx.type = "transfer"
  THEN IF "destinationAccountId" \in DOMAIN tx /\ tx.destinationAccountId # ""
       THEN -tx.amount ELSE tx.amount
  ELSE 0

RECURSIVE SignedSum(_, _, _)
\* the contributions of the transactions of account id among the first i
SignedSum(txs, id, i) ==
  IF i = 0 THEN 0
  ELSE SignedSum(txs, id, i - 1) + (IF txs[i].accountId = id THEN SignedAmount(txs[i]) ELSE 0)

\* C14: the keys of the derived balances are exactly the ids of the current
\* accounts; the balance of an account is 0 plus, over the transactions
\* whose accountId it is, the income amounts, minus the expense amounts,
\* minus the transfers with destinationAccountId, plus the transfers without;
\* a transaction of an account that is not in the list opens no key and
\* changes no balance.
C14_BalanceKeysAndValues ==
  /\ DOMAIN accountBalances(data) = AccountIds(data)
  /\ \A id \in AccountIds(data) :
       accountBalances(data)[id] = SignedSum(data.transactions, id, Len(data.transactions))

\* a transfer leg is left on an account that was deleted while its sibling
\* still counts in the balance of an account of the list
C14_Witness ==
  /\ \E i \in DOMAIN data.transactions :
       /\ data.transactions[i].accountId \notin AccountIds(data)
       /\ data.transactions[i].type = "transfer"
  /\ \E id \in AccountIds(data) : accountBalances(data)[id] # 0

\* C15: deleting a category, an account (goal-flagged or not) or a goal
\* leaves the transaction list as it was: no transaction is removed or
\* changed.
C15_DeletionsKeepTransactions ==
  last.op \in {"deleteCategory", "handleDeleteAccount", "handleDeleteGoal"} =>
    data.transactions = prev.transactions

\* a category was removed and a transaction still carries its name
C15_Witness ==
  /\ last.op = "deleteCategory"
  /\ \E i \in DOMAIN data.transactions : data.transactions[i].category = last.cat
  /\ \A i \in DOMAIN data.categories : data.categories[i] # last.cat

\* C16: renaming a category from old to new, new non-empty and different
\* from old, replaces old by new in the category list and in every
\* transaction: a transaction whose category was old has category new and
\* is otherwise as it was, no transaction keeps old, every other
\* transaction is as it was; an empty new name, or new = old, changes
\* nothing.
C16_RenameCategoryPropagates ==
  /\ last.op = "renameCategory" =>
       /\ last.newName # "" /\ last.newName # last.oldName
       /\ DOMAIN data.categories = DOMAIN prev.categories
       /\ \A i \in DOMAIN prev.categories :
            data.categories[i] = IF prev.categories[i] = last.oldName
                                 THEN last.newName ELSE prev.categories[i]
       /\ DOMAIN data.transactions = DOMAIN prev.transactions
       /\ \A i \in DOMAIN prev.transactions :
            LET before == prev.transactions[i]
                after == data.transactions[i]
            IN  /\ after.category # last.oldName
                /\ before.category = last.oldName =>
                     /\ after.category = last.newName
                     /\ DOMAIN after = DOMAIN before
                     /\ \A k \in DOMAIN before \ {"category"} : after[k] = before[k]
                /\ before.category # last.oldName => after = before
       /\ data.accounts = prev.accounts /\ data.goals = prev.goals /\ data.xp = prev.xp
  /\ \A i \in DOMAIN data.categories :
       /\ renameCategory(data, data.categories[i], "").update = <<>>
       /\ renameCategory(data, data.categories[i], data.categories[i]).update = <<>>

\* a category that a transaction carried was renamed
C16_Witness ==
  /\ last.op = "renameCategory"
  /\ \E i \in DOMAIN prev.transactions : prev.transactions[i].category = last.oldName
  /\ \E i \in DOMAIN data.transactions : data.transactions[i].category = last.newName

\* a list of names in which no name comes twice
NoDuplicates(names) ==
  \A i, j \in DOMAIN names : names[i] = names[j] => i = j

\* C17: a rename does not create duplicate category entries: after a rename
\* of a list without duplicates, also to a name another category has, the
\* category list holds each name at most once.
C17_RenameKeepsCategoriesDistinct ==
  (last.op = "renameCategory" /\ NoDuplicates(prev.categories)) => NoDuplicates(data.categories)

\* C18: a transaction form submitted with a zero or negative amount is
\* rejected before any mutation, so that the amount of every stored
\* transaction is a non-negative magnitude.
C18_NonPositiveAmountRejected ==
  /\ last.op = "handleSaveTransaction" => ParseFloat(last.form.amount) > 0
  /\ \A i \in DOMAIN data.transactions : data.transactions[i].amount >= 0

\* C19: an import of a file that does not parse changes no field of the
\* state: transactions, accounts, categories, goals, xp and lastSync stay.
C19_FailedImportChangesNothing ==
  [][notice' = "Erro ao importar arquivo JSON. Verifique o formato." => data' = data]_vars

\* the import of a file that does not parse was refused in a session that
\* holds a transaction
C19_Witness ==
  /\ notice = "Erro ao importar arquivo JSON. Verifique o formato."
  /\ Len(data.transactions) > 0
  /\ data.xp > 0

\* C20 as claimed: exporting the state and importing the exported file,
\* with no mutation in between, leaves a state identical to the one
\* exported, field for field: transactions, accounts, categories, goals, xp
\* and lastSync.
C20_RoundTrip ==
  (last.op = "handleImportData" /\ "exported" \in DOMAIN last) =>
    /\ data.transactions = last.exported.transactions
    /\ data.accounts = last.exported.accounts
    /\ data.categories = last.exported.categories
    /\ data.goals = last.exported.goals
    /\ data.xp = last.exported.xp
    /\ data.lastSync = last.exported.lastSync

\* C20 as amended: exporting the state and importing the exported file
\* leaves transactions, accounts, categories, goals and xp as they were
\* exported, in the same order, and no field more or less; lastSync is the
\* time of the import.
C20_RoundTripButLastSync ==
  (last.op = "handleImportData" /\ "exported" \in DOMAIN last) =>
    /\ data.transactions = last.exported.transactions
    /\ data.accounts = last.exported.accounts
    /\ data.categories = last.exported.categories
    /\ data.goals = last.exported.goals
    /\ data.xp = last.exported.xp
    /\ DOMAIN data = DOMAIN last.exported
    /\ data.lastSync = ISOString(now)
    /\ data.lastSync # last.exported.lastSync

\* a state with a transaction and a goal was exported and imported again
C20_Witness ==
  /\ last.op = "handleImportData"
  /\ "exported" \in DOMAIN last
  /\ Len(data.transactions) > 0
  /\ Len(data.goals) > 0

\* a field of the state that holds nothing
EmptyField(f) == IF f = "xp" THEN 0 ELSE <<>>

\* C21: a successful import replaces the whole document: after the import of
\* a parsed document D the transactions, accounts, categories, goals and xp
\* of the state are those of D, and nothing of the state before the import
\* is left in those fields, also when D omits some of them.
C21_ImportReplacesDocument ==
  (last.op = "handleImportData" /\ "exported" \notin DOMAIN last) =>
    \A f \in {"transactions", "accounts", "categories", "goals", "xp"} :
      data[f] = IF f \in DOMAIN last.file.json THEN last.file.json[f] ELSE EmptyField(f)

RECURSIVE KindTotal(_, _, _, _)
\* the amounts of the transactions of this kind and category among the first i
KindTotal(txs, type, category, i) ==
  IF i = 0 THEN 0
  ELSE KindTotal(txs, type, category, i - 1)
       + (IF txs[i].type = type /\ txs[i].category = category THEN txs[i].amount ELSE 0)

\* a pie lists listed categories only, each once, each with the total of the
\* transactions of the kind, and leaves out no listed category that has one
PieOf(pie, type) ==
  /\ \A k \in DOMAIN pie :
       /\ pie[k].name \in Range(data.categories)
       /\ pie[k].value = KindTotal(data.transactions, type, pie[k].name, Len(data.transactions))
       /\ \E i \in DOMAIN data.transactions :
            data.transactions[i].type = type /\ data.transactions[i].category = pie[k].name
       /\ \A j \in DOMAIN pie : pie[j].name = pie[k].name => j = k
  /\ \A i \in DOMAIN data.transactions :
       (data.transactions[i].type = type /\ data.transactions[i].category \in Range(data.categories))
         => \E k \in DOMAIN pie : pie[k].name = data.transactions[i].category

\* C22: the totals by category, of the incomes and of the expenses, list
\* only categories of the current category list: each total is the sum of
\* the amounts of the transactions of the kind with the category, a category
\* that is not in the list is not listed even when transactions carry it,
\* and transfers count in neither.
C22_PieData ==
  /\ PieOf(expensePieData(data), "expense")
  /\ PieOf(incomePieData(data), "income")

\* an expense carries a category that was removed, and the pie of the
\* expenses lists another category
C22_Witness ==
  /\ \E i \in DOMAIN data.transactions :
       /\ data.transactions[i].type = "expense"
       /\ data.transactions[i].category \notin Range(data.categories)
  /\ Len(expensePieData(data)) > 0

\* the fields an edit may not touch
FrozenFields == {"id", "type", "date", "time", "linkedTransferId", "destinationAccountId"}

\* C23: editing a transaction changes only the description, amount,
\* category, account and recurrence fields of that transaction and sets
\* isEdited and updatedAt on it: its id, kind, date, time, linkedTransferId
\* and destinationAccountId stay, every other transaction stays, and the
\* list keeps its length.
C23_EditFrame ==
  (last.op = "handleSaveTransaction" /\ last.editing # NoTransaction) =>
    /\ Len(data.transactions) = Len(prev.transactions)
    /\ \A i \in DOMAIN prev.transactions :
         LET before == prev.transactions[i]
             after == data.transactions[i]
         IN  IF before.id = last.editing.id
             THEN /\ \A k \in FrozenFields :
                       /\ k \in DOMAIN after <=> k \in DOMAIN before
                       /\ k \in DOMAIN before => after[k] = before[k]
                  /\ DOMAIN after \ DOMAIN before
                       \subseteq {"isRecurring", "frequency", "isEdited", "updatedAt"}
                  /\ after.isEdited
                  /\ after.updatedAt = ISOString(now)
             ELSE after = before

\* C24: without import, every transaction whose accountId is the id of an
\* account of the list carries in accountName the current name of that
\* account.
C24_AccountNameSnapshots ==
  \A i \in DOMAIN data.transactions :
    \A k \in DOMAIN data.accounts :
      data.accounts[k].id = data.transactions[i].accountId =>
        data.transactions[i].accountName = data.accounts[k].name

\* the records an update appends to the transactions of prev
Appended(update) ==
  {update.transactions[i] : i \in (Len(prev.transactions) + 1)..Len(update.transactions)}

MovementCounter ==
  IF last.counter # "" THEN last.counter
  ELSE prev.accounts[CHOOSE k \in DOMAIN prev.accounts :
                       /\ ~IsGoalAccount(prev.accounts[k])
                       /\ \A j \in 1..(k - 1) : IsGoalAccount(prev.accounts[j])].id

\* C26: a goal movement of a positive amount a appends one transfer pair in
\* the direction asked for: for 'in' the debit leg is on the counter account
\* and the credit leg on the reserve of the goal, the balance of the reserve
\* rises by a and that of the counter account falls by a; for 'out' the
\* reverse; the two accounts of the pair are never the same.
C26_GoalMovementDirection ==
  last.op = "moveGoalValue" =>
    LET a == ParseFloat(last.amount)
        reserve == last.goal.linkedAccountId
        counter == MovementCounter
        n == Len(prev.transactions)
        source == IF last.direction = "in" THEN counter ELSE reserve
        target == IF last.direction = "in" THEN reserve ELSE counter
    IN  /\ a > 0
        /\ Len(data.transactions) = n + 2
        /\ SubSeq(data.transactions, 1, n) = prev.transactions
        /\ LET debit == data.transactions[n + 1]
               credit == data.transactions[n + 2]
           IN  /\ debit.type = "transfer" /\ credit.type = "transfer"
               /\ debit.amount = a /\ credit.amount = a
               /\ debit.linkedTransferId = credit.linkedTransferId
               /\ Legs(prev.transactions, debit.linkedTransferId) = {}
               /\ debit.accountId = source
               /\ debit.destinationAccountId = target
               /\ credit.accountId = target
               /\ "destinationAccountId" \notin DOMAIN credit
        /\ source # target
        /\ \E k \in DOMAIN prev.accounts :
             prev.accounts[k].id = counter /\ ~IsGoalAccount(prev.accounts[k])
        /\ \E k \in DOMAIN prev.accounts :
             prev.accounts[k].id = reserve /\ IsGoalAccount(prev.accounts[k])
        /\ BalanceOf(data, source) = BalanceOf(prev, source) - a
        /\ BalanceOf(data, target) = BalanceOf(prev, target) + a

\* a value was taken out of a goal to the account selected on its card
C26_Witness ==
  /\ last.op = "moveGoalValue"
  /\ last.direction = "out"
  /\ last.counter = "2"
  /\ BalanceOf(data, "2") = BalanceOf(prev, "2") + ParseFloat(last.amount)

====
